---- MODULE Spec2Model ----
(***************************************************************************)
(* Canvas scenes of the portfolio site: the Scene3D frame loop, HeroScene  *)
(* and CanvasScene, and the App that registers and broadcasts to them.     *)
(* Two copies of the code exist, src/unnamed/part_000 and src/app.js; the  *)
(* variable build says which copy is loaded.                               *)
(*                                                                         *)
(* Lengths are integers in units of 1/10 pixel (Px), so that a speed the   *)
(* code draws from [0.1, 0.6) px per frame is a whole number.  A           *)
(* heading angle is represented by the pair (c, s) = 5 * (cos, sin) of     *)
(* the angle; "Math.PI - angle" and "-angle" act on that pair exactly.     *)
(***************************************************************************)
EXTENDS Integers, Sequences, FiniteSets, TLC

\* ------------------------------------------------------------------ bounds
MaxHandles == 3

ParticleCount == 2

MaxUpdates == 2

MaxClock == 6
\* The hook invocations recorded per scene beyond which render() is no more
\* called from outside a frame.
MaxLog == 6
\* The scroll events the page gets.
MaxScrolls == 3
\* The submit events the contact form gets.
MaxSubmits == 3

\* ------------------------------------------------------- units and numbers
Px(n) == 10 * n

\* Milliseconds in steps of the clock.
Ms(n) == n \div 100

Abs(n) == IF n < 0 THEN -n ELSE n

Min(a, b) == IF a < b THEN a ELSE b

Max(a, b) == IF a > b THEN a ELSE b

\* Quotient rounded towards zero (the integer part of a JavaScript quotient).
Quot(a, b) == IF a >= 0 THEN a \div b ELSE -((-a) \div b)

\* The integer part of the square root of n, known to lie in lo..hi.
RECURSIVE SqrtSearch(_, _, _)
SqrtSearch(n, lo, hi) ==
    IF lo >= hi THEN lo
    ELSE CHOOSE root \in
             {IF mid * mid <= n THEN SqrtSearch(n, mid, hi)
                                ELSE SqrtSearch(n, lo, mid - 1) :
                 mid \in {(lo + hi + 1) \div 2}} : TRUE

\* Math.sqrt(Math.pow(dx, 2) + Math.pow(dy, 2)) on lengths: the root lies
\* between the longer leg and the sum of both.
Hypot(dx, dy) ==
    SqrtSearch(dx * dx + dy * dy, Max(Abs(dx), Abs(dy)), Abs(dx) + Abs(dy))

Distance(ax, ay, bx, by) == Hypot(ax - bx, ay - by)

\* --------------------------------------------------------------- the page
\* Registry keys in the order App.initializeScenes visits them.
SceneIds == <<"hero", "about">>

Ids == {SceneIds[i] : i \in 1..Len(SceneIds)}

\* The class App.initializeScenes instantiates for a canvas.
ClassOf(id) == IF id = "hero" THEN "HeroScene" ELSE "CanvasScene"

Builds == {"part_000", "app_js"}

Surfaces == {"absent", "noctx", "ok"}

VARIABLES
    build,          \* which copy of the code is loaded
    surface,        \* per canvas: absent, present without 2D context, or ok
    rect,           \* per canvas: its layout box (getBoundingClientRect)
    mousePosition,  \* appState.mousePosition
    hidden,         \* document.hidden
    obj,            \* per id: the fields of the scene object
    pending,        \* per id: frame callbacks requested and not yet run
    nextHandle,     \* the next handle requestAnimationFrame returns
    log,            \* per id: what animate() calls did so far: "update" and
                    \* "render" for the hooks invoked, "return" for the early
                    \* return at the running guard; each entry says whether
                    \* the subclass fields were assigned at that moment
    thrown,         \* <<>>, or <<method, id>> of the TypeError that ended the latest step
    appPc,          \* App: "loading", "ready" (listeners installed), "failed"
    scenes,         \* App.scenes: the registered ids
    kind,           \* the type argument the page passes for the about canvas
    isReducedMotion,    \* appState.isReducedMotion
    loadingParticles,   \* number of particles in the loading screen's field
    clock,          \* time since the page loaded, in steps of 100 ms
    timers,         \* the due times of the setTimeout timers not yet fired
    timeout,        \* the debounce closure's timeout: <<>> or <<due time>>
    resized,        \* the latest resize event the listener got: its time, and
                    \* the handleResize() runs since
    monitor,        \* performanceMonitor: frameCount, lastTime, fps, fpsArray
                    \* and qualityLevel (in tenths)
    nav,            \* the mobile menu: NavigationManager.isMenuOpen, the
                    \* 'active' class of #nav-menu and of #nav-toggle, and
                    \* appState.currentSection
    overflow,       \* document.body.style.overflow
    loadingDom,     \* which optional elements of the loading screen exist:
                    \* #loading-screen, .loading-progress, .loading-percentage
    loading,        \* the loading sequence: the handler's progress and its
                    \* interval, loadingManager's progress and isComplete,
                    \* what the bar and the text show, the timers of
                    \* complete(), and counts of ticks and complete() calls
    scroll,         \* scrolling: window.scrollY, the throttle closure's
                    \* inThrottle and the due times of its timers, the
                    \* navbar's 'scrolled' class, the back-to-top button's
                    \* 'hidden' class, NavigationManager.currentSection and
                    \* the link marked active, the time of the latest run of
                    \* the throttled function, and counts of events and runs
    form,           \* the contact form: the submit button's disabled flag
                    \* and label, whether the fields hold text, the
                    \* originalText of each pending 2000 ms timer in the
                    \* order set, and counts of submits and success messages
    counter         \* a .stat-number counter: its data-target, whether
                    \* animateCounter has been called for it, current (in
                    \* 125ths), the text shown, whether the interval is set,
                    \* and the number of ticks run

\* What no handler assigns, and what only the resize handling assigns.
fixed == <<kind, isReducedMotion, loadingParticles>>

timing == <<clock, timers, timeout, resized>>

\* What the managers and the loading screen keep.
widgets == <<nav, overflow, loadingDom, loading, scroll, form, counter>>

vars == <<build, surface, rect, mousePosition, hidden, obj, pending,
          nextHandle, log, thrown, appPc, scenes, fixed, timing, monitor,
          widgets>>

\* The type arguments a CanvasScene is constructed with: the four kinds
\* App.initializeScenes passes, the parameter's default, and a value
\* outside the kinds the switch in render() knows.
Kinds == {"default", "hologram", "network", "particle", "neural", "other"}

\* The type argument App.initializeScenes passes to CanvasScene; the key
\* "about" stands for the CanvasScene canvas of the page, of kind kind
\* ('hologram' for the about canvas itself).
TypeArg(b, id) ==
    CASE id = "about" -> kind
      [] id = "service-0" -> "particle"
      [] OTHER -> "default"

\* The loading sequence before DOMContentLoaded.
NotLoading ==
    [started |-> FALSE, progress |-> 0, interval |-> FALSE, reported |-> 0,
     isComplete |-> FALSE, width |-> 0, text |-> 0, stage |-> "none",
     isLoaded |-> FALSE, ticks |-> 0, completions |-> 0]

\* The page at the top, as NavigationManager finds it.
NotScrolled ==
    [y |-> 0, inThrottle |-> FALSE, timers |-> {}, scrolled |-> FALSE,
     backHidden |-> TRUE, current |-> "home", active |-> "home", lastRun |-> 0,
     events |-> 0, runs |-> 0]

\* The contact form as the page ships it.
NewForm ==
    [disabled |-> FALSE, text |-> "Send Message", filled |-> FALSE,
     sends |-> <<>>, submits |-> 0, messages |-> 0]

\* The integer data-target values a counter element may carry.
Targets == {-3, 0, 2, 7}

\* A counter element before animateCounter is called for it; the text it
\* shows is the markup's 0 and not yet written by the code.
NewCounter(target) ==
    [target |-> target, started |-> FALSE, current |-> 0, shown |-> 0,
     written |-> FALSE, interval |-> FALSE, ticks |-> 0]

\* ---------------------------------------------------- PerformanceMonitor
\* new PerformanceMonitor(), at page load
NewMonitor ==
    [frameCount |-> 0, fps |-> 60, lastTime |-> 0, fpsArray |-> <<>>,
     qualityLevel |-> 10]

RECURSIVE SumSeq(_)
SumSeq(q) == IF q = <<>> THEN 0 ELSE Head(q) + SumSeq(Tail(q))

\* this.fpsArray.push(this.fps), and shift() beyond ten entries
PushFps(q, fps) ==
    IF Len(q) + 1 > 10 THEN Tail(Append(q, fps)) ELSE Append(q, fps)

\* PerformanceMonitor.adjustQuality(), on the quality level in tenths
AdjustQuality(q, level) ==
    LET stepped ==
            IF SumSeq(q) < 30 * Len(q) /\ level > 5 THEN level - 1
            ELSE IF SumSeq(q) > 50 * Len(q) /\ level < 10 THEN level + 1
            ELSE level
    IN Max(3, Min(10, stepped))

\* PerformanceMonitor.update() at time now
MonitorUpdate(m, now) ==
    IF now >= m.lastTime + Ms(1000)
    THEN LET fps == (2 * (m.frameCount + 1) * 10 + (now - m.lastTime))
                        \div (2 * (now - m.lastTime))
             q == PushFps(m.fpsArray, fps)
         IN [frameCount |-> 0, fps |-> fps, lastTime |-> now, fpsArray |-> q,
             qualityLevel |-> AdjustQuality(q, m.qualityLevel)]
    ELSE [m EXCEPT !.frameCount = @ + 1]

\* ------------------------------------------------------- the scene object
\* What a CanvasScene has on its canvas before its first render(), as the
\* output field below records it: the pattern drawn, the time value the
\* pattern was drawn for, what Math.random() decided of it, the angles the
\* elements were drawn at, and the box the drawing was centred in.
NoOutput ==
    [pattern |-> "none", t |-> [kind |-> "undefined", n |-> 0], chance |-> FALSE,
     angles |-> <<>>, box |-> [width |-> 0, height |-> 0]]

\* The fields of a scene object; state is "none" before new, "constructed"
\* when the constructor returned, "failed" when it threw.  fields says
\* whether the subclass constructor has assigned its own fields.
NoObject ==
    [state |-> "none", canvas |-> FALSE, ctx |-> FALSE, isRunning |-> FALSE,
     animationId |-> 0, time |-> [kind |-> "undefined", n |-> 0],
     type |-> "undefined", fields |-> FALSE, buffer |-> [width |-> 0, height |-> 0],
     particles |-> <<>>, shapes |-> <<>>, elements |-> <<>>, pattern |-> "none",
     output |-> NoOutput]

\* What the operators below thread through a handler: the objects, the
\* browser's frame-callback table, whether an exception is propagating, and
\* what the handler gets from outside the page: now, the time Date.now()
\* returns, and draw, whether a Math.random() of renderNetwork exceeds 0.7.
World ==
    [obj |-> obj, pending |-> pending, next |-> nextHandle, log |-> log,
     thrown |-> <<>>, now |-> clock, draw |-> FALSE, monitor |-> monitor]

\* The world of a handler whose Math.random() calls decide u.
Drawing(u) == [World EXCEPT !.draw = u]

\* An uncaught TypeError leaves method of scene id.
Throw(w, method, id) == [w EXCEPT !.thrown = <<method, id>>]

Thrown(w) == w.thrown # <<>>

\* time += step, on a field that may still be undefined
AddStep(t) ==
    CASE t.kind = "number" -> [t EXCEPT !.n = @ + 1]
      [] OTHER -> [t EXCEPT !.kind = "NaN"]

\* this.animationId = requestAnimationFrame(this.animate.bind(this))
RequestAnimationFrame(w, id) ==
    [w EXCEPT !.obj[id].animationId = w.next,
              !.pending[id] = @ \cup {w.next},
              !.next = @ + 1]

\* cancelAnimationFrame(this.animationId)
CancelAnimationFrame(w, id) ==
    [w EXCEPT !.pending[id] = @ \ {w.obj[id].animationId}]

\* ------------------------------------------------------------- HeroScene
ConnectionDistance == Px(120)

MouseRadius == Px(100)

\* Mutant: a turn by half a circle (angle + Math.PI) in place of the mirror.
Reverse(angle) == [angle EXCEPT !.c = -@, !.s = -@]

\* particle.angle = Math.PI - particle.angle
MirrorX(angle) == [angle EXCEPT !.c = -@]

\* particle.angle = -particle.angle
MirrorY(angle) == [angle EXCEPT !.s = -@]

\* Mutant: the displacement with its sign turned, towards the pointer.
MousePull(dx, dy, d) ==
    IF d >= Px(100) THEN [dx |-> 0, dy |-> 0]
    ELSE IF d = 0 THEN [dx |-> -Px(2), dy |-> 0]
    ELSE [dx |-> -Quot(Px(2) * dx * (Px(100) - d), d * Px(100)),
          dy |-> -Quot(Px(2) * dy * (Px(100) - d), d * Px(100))]

\* Math.cos(angle) * mouseForce * 2 and Math.sin(angle) * mouseForce * 2 for
\* angle = Math.atan2(dy, dx) and mouseForce = (100 - d) / 100, where (dx, dy)
\* leads from the pointer to the particle and d is its length; atan2(0, 0) = 0.
MousePush(dx, dy, d) ==
    IF d >= MouseRadius THEN [dx |-> 0, dy |-> 0]
    ELSE IF d = 0 THEN [dx |-> Px(2), dy |-> 0]
    ELSE [dx |-> Quot(Px(2) * dx * (MouseRadius - d), d * MouseRadius),
          dy |-> Quot(Px(2) * dy * (MouseRadius - d), d * MouseRadius)]

Shift(p, by) == [p EXCEPT !.x = @ + by.dx, !.y = @ + by.dy]

\* if (mouseDistance < 100) { particle.x += ...; particle.y += ... }
Repel(p, mouseX, mouseY) ==
    CHOOSE pushed \in
        {Shift(p, by) :
            by \in {MousePush(p.x - mouseX, p.y - mouseY, mouseDistance) :
                mouseDistance \in {Distance(mouseX, mouseY, p.x, p.y)}}} : TRUE

\* particle.x += Math.cos(particle.angle) * particle.speed, and y with sin
Integrate(p) ==
    [p EXCEPT !.x = @ + Quot(p.angle.c * p.speed, 5),
              !.y = @ + Quot(p.angle.s * p.speed, 5)]

\* The two reflection tests, in the code's order.
ReflectX(p, width) ==
    IF p.x < 0 \/ p.x > width THEN [p EXCEPT !.angle = MirrorX(@)] ELSE p

ReflectY(p, height) ==
    IF p.y < 0 \/ p.y > height THEN [p EXCEPT !.angle = MirrorY(@)] ELSE p

\* Mutant: the clamp without its lower bound.
ClampUpperOnly(p, width, height) ==
    [p EXCEPT !.x = Min(width, @), !.y = Min(height, @)]

\* particle.x = Math.max(0, Math.min(width, particle.x)), and y with height
Clamp(p, width, height) ==
    [p EXCEPT !.x = Max(0, Min(width, @)), !.y = Max(0, Min(height, @))]

\* particle.pulsePhase += 0.05, counted in steps
Pulse(p) == [p EXCEPT !.pulsePhase = @ + 1]

\* The body of the particle loop in part_000, up to the clamp: each
\* statement works on the particle the statement before it left.
MoveParticle(p, r, mouseX, mouseY) ==
    CHOOSE clamped \in
        {Clamp(reflected, r.width, r.height) :
            reflected \in {ReflectY(turned, r.height) :
                turned \in {ReflectX(moved, r.width) :
                    moved \in {Pulse(Integrate(pushed)) :
                        pushed \in {Repel(p, mouseX, mouseY)}}}}} : TRUE

\* The body of the particle loop in app.js.
MoveParticleApp(p, width, height) ==
    CHOOSE clamped \in
        {Clamp(reflected, width, height) :
            reflected \in {ReflectY(turned, height) :
                turned \in {ReflectX(moved, width) :
                    moved \in {Integrate(p)}}}} : TRUE

\* (120 - distance) / 120, in thousandths
Opacity(distance) == Quot((ConnectionDistance - distance) * 1000, ConnectionDistance)

\* Mutant: the push without the distance test.
PushUnchecked(connections, j, distance) ==
    Append(connections, [particle |-> j, opacity |-> Opacity(distance)])

\* if (distance < 120) particle.connections.push({particle: other, opacity})
Push(connections, j, distance) ==
    IF distance < ConnectionDistance
    THEN Append(connections, [particle |-> j, opacity |-> Opacity(distance)])
    ELSE connections

\* for (let j = i + 1; j < this.particles.length; j++), on the array as it
\* is when particle i has just been moved.
RECURSIVE ConnectionsFrom(_, _, _, _)
ConnectionsFrom(ps, i, j, connections) ==
    IF j > Len(ps) THEN connections
    ELSE CHOOSE all \in
             {ConnectionsFrom(ps, i, j + 1, pushed) :
                 pushed \in {Push(connections, j,
                                  Distance(ps[i].x, ps[i].y, ps[j].x, ps[j].y))}} : TRUE

\* Mutant: the inner loop from the first particle on.
ConnectAll(ps, i) == [ps EXCEPT ![i].connections = ConnectionsFrom(ps, i, 1, <<>>)]

\* particle.connections = []; then the inner loop
Connect(ps, i) == [ps EXCEPT ![i].connections = ConnectionsFrom(ps, i, i + 1, <<>>)]

\* One iteration of this.particles.forEach in part_000.
ParticleStep(ps, i, r, mouseX, mouseY) ==
    CHOOSE connected \in
        {Connect(moved, i) :
            moved \in {[ps EXCEPT ![i] = MoveParticle(@, r, mouseX, mouseY)]}} : TRUE

RECURSIVE UpdateParticles(_, _, _, _, _)
UpdateParticles(ps, i, r, mouseX, mouseY) ==
    IF i > Len(ps) THEN ps
    ELSE CHOOSE done \in
             {UpdateParticles(stepped, i + 1, r, mouseX, mouseY) :
                 stepped \in {ParticleStep(ps, i, r, mouseX, mouseY)}} : TRUE

\* this.particles.forEach in app.js: no pointer, no connections.
UpdateParticlesApp(ps, r) ==
    [i \in 1..Len(ps) |-> MoveParticleApp(ps[i], r.width, r.height)]

\* this.shapes.forEach: rotation and, in part_000, the pulse phase.
UpdateShapes(b, shs) ==
    [i \in 1..Len(shs) |->
        [shs[i] EXCEPT !.rotation = @ + shs[i].rotationSpeed,
                       !.pulse = IF b = "part_000" THEN @ + 1 ELSE @]]

\* HeroScene.update()
HeroSceneUpdate(w, id, b, r, mouse) ==
    LET o == w.obj[id]
    IN IF ~o.canvas THEN w
       ELSE IF ~o.fields THEN Throw(w, "update", id)
       ELSE [w EXCEPT !.obj[id].particles =
                          IF b = "part_000"
                          THEN UpdateParticles(o.particles, 1, r, mouse.x - r.left, mouse.y - r.top)
                          ELSE UpdateParticlesApp(o.particles, r),
                      !.obj[id].shapes = UpdateShapes(b, o.shapes)]

\* HeroScene.render(): draws, and reads this.particles when a context exists.
HeroSceneRender(w, id) ==
    LET o == w.obj[id]
    IN IF ~o.ctx THEN w
       ELSE IF ~o.fields THEN Throw(w, "render", id)
       ELSE [w EXCEPT !.obj[id].pattern = "hero"]

\* ----------------------------------------------------------- CanvasScene
\* The pattern the switch in CanvasScene.render selects for a type value.
PatternOf(b, type) ==
    IF type \in {"hologram", "network", "particle"} THEN type
    ELSE IF b = "part_000" /\ type = "neural" THEN type
    ELSE "default"

\* renderParticleSystem in part_000: element.angle += element.speed
AdvanceElements(els) ==
    [i \in 1..Len(els) |-> [els[i] EXCEPT !.angle = @ + els[i].speed]]

\* CanvasScene.update(): app.js advances its own time; part_000 inherits
\* the empty Scene3D.update.
CanvasSceneUpdate(w, id, b) ==
    IF b = "app_js" THEN [w EXCEPT !.obj[id].time = AddStep(@)] ELSE w

\* The patterns whose render function writes to this.elements.
Advances(b, pat) == b = "part_000" /\ pat = "particle"

\* Mutant: every pattern is drawn for the wall-clock time.
TimeNow(w, id, b, pat) == [kind |-> "date", n |-> w.now]

\* The time value a pattern is drawn for: this.time, but Date.now() * 0.001
\* in the renderDefault of app.js.
TimeOf(w, id, b, pat) ==
    IF b = "app_js" /\ pat = "default" THEN [kind |-> "date", n |-> w.now]
    ELSE w.obj[id].time

\* What of a drawing Math.random() decides: the links of app.js's
\* renderNetwork.
ChanceOf(w, b, pat) == b = "app_js" /\ pat = "network" /\ w.draw

\* What render() leaves on the canvas, given the elements it drew.
Drawn(w, id, b, pat, els) ==
    [pattern |-> pat, t |-> TimeOf(w, id, b, pat), chance |-> ChanceOf(w, b, pat),
     angles |-> [i \in 1..Len(els) |-> els[i].angle],
     box |-> [width |-> rect[id].width, height |-> rect[id].height]]

\* CanvasScene.render()
CanvasSceneRender(w, id, b) ==
    LET o == w.obj[id]
        pat == PatternOf(b, o.type)
    IN IF ~o.ctx THEN w
       ELSE IF Advances(b, pat)
            THEN IF ~o.fields THEN Throw(w, "render", id)
                 ELSE [w EXCEPT !.obj[id].elements = AdvanceElements(@),
                                !.obj[id].pattern = pat,
                                !.obj[id].output =
                                    Drawn(w, id, b, pat, AdvanceElements(o.elements))]
            ELSE [w EXCEPT !.obj[id].pattern = pat,
                           !.obj[id].output = Drawn(w, id, b, pat, <<>>)]

\* --------------------------------------------------------------- Scene3D
\* this.update(), dispatched on the object's class
Update(w, id) ==
    LET w1 == [w EXCEPT !.log[id] = Append(@, [hook |-> "update", fields |-> w.obj[id].fields])]
    IN IF ClassOf(id) = "HeroScene"
       THEN HeroSceneUpdate(w1, id, build, rect[id], mousePosition)
       ELSE CanvasSceneUpdate(w1, id, build)

\* this.render(), dispatched on the object's class
Render(w, id) ==
    LET w1 == [w EXCEPT !.log[id] = Append(@, [hook |-> "render", fields |-> w.obj[id].fields])]
    IN IF ClassOf(id) = "HeroScene"
       THEN HeroSceneRender(w1, id)
       ELSE CanvasSceneRender(w1, id, build)

\* this.time += 0.016, which only part_000 has
Tick(w, id) ==
    IF build = "part_000" THEN [w EXCEPT !.obj[id].time = AddStep(@)] ELSE w

\* this.render(), reached only when this.update() returned
ThenRender(w, id) == IF Thrown(w) THEN w ELSE Render(w, id)

\* performanceMonitor.update(), the last statement of animate() in
\* part_000, reached only when this.render() returned
ThenMonitor(w) ==
    IF Thrown(w) \/ build # "part_000" THEN w
    ELSE [w EXCEPT !.monitor = MonitorUpdate(@, w.now)]

\* Mutant: render() before update().
ThenUpdate(w, id) == IF Thrown(w) THEN w ELSE Update(w, id)

FrameRenderFirst(w, id) ==
    CHOOSE done \in
        {ThenMonitor(ThenUpdate(rendered, id)) :
            rendered \in {Render(ticked, id) :
                ticked \in {Tick(RequestAnimationFrame(w, id), id)}}} : TRUE

\* Mutant: the next callback is requested at the end of the frame.
ThenRequest(w, id) == IF Thrown(w) THEN w ELSE RequestAnimationFrame(w, id)

FrameRequestLast(w, id) ==
    CHOOSE done \in
        {ThenRequest(ThenMonitor(rendered), id) :
            rendered \in {ThenRender(updated, id) :
                updated \in {Update(ticked, id) :
                    ticked \in {Tick(w, id)}}}} : TRUE

\* The body of animate() after the running guard.
Frame(w, id) ==
    CHOOSE done \in
        {ThenMonitor(rendered) : rendered \in {ThenRender(updated, id) :
            updated \in {Update(ticked, id) :
                ticked \in {Tick(RequestAnimationFrame(w, id), id)}}}} : TRUE

\* if (!this.isRunning) return;
Skip(w, id) ==
    [w EXCEPT !.log[id] = Append(@, [hook |-> "return", fields |-> w.obj[id].fields])]

\* Mutant: animate() without the running guard.
AnimateUnguarded(w, id) == Frame(w, id)

\* Scene3D.animate()
Animate(w, id) ==
    IF ~w.obj[id].isRunning THEN Skip(w, id) ELSE Frame(w, id)

\* Scene3D.start()
Start(w, id) ==
    Animate([w EXCEPT !.obj[id].isRunning = TRUE], id)

\* if (this.animationId) cancelAnimationFrame(this.animationId)
CancelIfSet(w, id) ==
    IF w.obj[id].animationId # 0 THEN CancelAnimationFrame(w, id) ELSE w

\* Mutant: stop() that also rewinds the scene's clock.
StopAndRewind(w, id) ==
    CancelIfSet([w EXCEPT !.obj[id].isRunning = FALSE,
                          !.obj[id].time = [kind |-> "number", n |-> 0]], id)

\* Scene3D.stop()
Stop(w, id) ==
    CancelIfSet([w EXCEPT !.obj[id].isRunning = FALSE], id)

\* Scene3D.setupCanvas(): reads this.canvas, then this.ctx, unguarded.
SetupCanvas(w, id) ==
    LET o == w.obj[id]
    IN IF ~o.canvas THEN Throw(w, "setupCanvas", id)
       ELSE LET w1 == [w EXCEPT !.obj[id].buffer =
                           [width |-> rect[id].width, height |-> rect[id].height]]
            IN IF ~o.ctx THEN Throw(w1, "setupCanvas", id) ELSE w1

\* this.start(), reached only when this.setupCanvas() returned
ThenStart(w, id) == IF Thrown(w) THEN w ELSE Start(w, id)

\* Scene3D.init() from this.ctx = this.canvas.getContext('2d') on
GetContext(w, id) ==
    IF surface[id] = "ok"
    THEN ThenStart(SetupCanvas([w EXCEPT !.obj[id].ctx = TRUE], id), id)
    ELSE w

\* Scene3D.init()
SceneInit(w, id) ==
    IF ~w.obj[id].canvas THEN w ELSE GetContext(w, id)

\* The fields the Scene3D constructor assigns before it calls init().
BaseFields(id, type) ==
    [NoObject EXCEPT
        !.canvas = (surface[id] # "absent"),
        !.time = IF build = "part_000" THEN [kind |-> "number", n |-> 0] ELSE @,
        !.type = IF build = "part_000" THEN type ELSE @]

\* Scene3D constructor, called through super(...) with the type option.
Scene3DConstructor(w, id, type) ==
    IF surface[id] # "absent"
    THEN SceneInit([w EXCEPT !.obj[id] = BaseFields(id, type)], id)
    ELSE [w EXCEPT !.obj[id] = BaseFields(id, type)]

\* The statements of the HeroScene constructor after super(...).
HeroSceneFields(w, id, seed) ==
    IF Thrown(w) THEN [w EXCEPT !.obj[id].state = "failed"]
    ELSE [w EXCEPT !.obj[id].state = "constructed",
                   !.obj[id].fields = TRUE,
                   !.obj[id].particles = seed.particles,
                   !.obj[id].shapes = seed.shapes]

\* new HeroScene(canvas)
HeroSceneConstructor(w, id, seed) ==
    HeroSceneFields(Scene3DConstructor(w, id, "default"), id, seed)

\* The statements of the CanvasScene constructor after super(...):
\* elements in part_000, type and time in app.js.
CanvasSceneFields(w, id, type, seed) ==
    IF Thrown(w) THEN [w EXCEPT !.obj[id].state = "failed"]
    ELSE IF build = "part_000"
         THEN [w EXCEPT !.obj[id].state = "constructed",
                        !.obj[id].fields = TRUE,
                        !.obj[id].elements = seed.elements]
         ELSE [w EXCEPT !.obj[id].state = "constructed",
                        !.obj[id].fields = TRUE,
                        !.obj[id].type = type,
                        !.obj[id].time = [kind |-> "number", n |-> 0]]

\* new CanvasScene(canvas, type)
CanvasSceneConstructor(w, id, type, seed) ==
    CanvasSceneFields(Scene3DConstructor(w, id, type), id, type, seed)

\* The new-expression App.initializeScenes evaluates for a canvas.
New(w, id, seed) ==
    IF ClassOf(id) = "HeroScene"
    THEN HeroSceneConstructor(w, id, seed)
    ELSE CanvasSceneConstructor(w, id, TypeArg(build, id), seed)

\* ------------------------------------------------------------------- App
\* App.initializeScenes from canvas i on: a canvas that is present gets its
\* scene constructed and registered; an exception ends the method.
RECURSIVE InitializeScenesFrom(_, _, _, _)
Register(w, reg, i, seed) ==
    IF Thrown(w) THEN [w |-> w, scenes |-> reg]
    ELSE InitializeScenesFrom(w, Append(reg, SceneIds[i]), i + 1, seed)

InitializeScenesFrom(w, reg, i, seed) ==
    IF i > Len(SceneIds) THEN [w |-> w, scenes |-> reg]
    ELSE IF surface[SceneIds[i]] = "absent"
         THEN InitializeScenesFrom(w, reg, i + 1, seed)
         ELSE Register(New(w, SceneIds[i], seed), reg, i, seed)

\* this.scenes.forEach(scene => scene.<method>()), in insertion order.
Call(method, w, id) ==
    CASE method = "start" -> Start(w, id)
      [] method = "stop" -> Stop(w, id)
      [] method = "setupCanvas" -> SetupCanvas(w, id)

RECURSIVE Broadcast(_, _, _, _)
Broadcast(method, w, reg, i) ==
    IF i > Len(reg) \/ Thrown(w) THEN w
    ELSE Broadcast(method, Call(method, w, reg[i]), reg, i + 1)

\* ---------------------------------------------------------------- inputs
MousePoints ==
    {[x |-> 0, y |-> 0], [x |-> Px(60), y |-> 0], [x |-> Px(40), y |-> Px(100)]}

\* The layout box of a canvas when the page loads, and the boxes a resize
\* of the window may give it (one of them collapsed to no height).
LoadRect == [left |-> 0, top |-> 0, width |-> Px(130), height |-> Px(100)]

Rects == {LoadRect, [left |-> Px(10), top |-> 0, width |-> Px(60), height |-> 0]}

\* The layout box initializeElements reads: the canvas's, or 800 x 600.
SeedRect(id) ==
    IF surface[id] = "absent" THEN [left |-> 0, top |-> 0, width |-> Px(800), height |-> Px(600)]
    ELSE rect[id]

\* What the Math.random() calls of initializeElements and initElements may
\* produce: every particle in a corner of the box r, on one of two headings.
Seeds(r) ==
    {[particles |-> [i \in 1..ParticleCount |->
                        [x |-> x, y |-> r.height, angle |-> a, speed |-> 5,
                         pulsePhase |-> 0, connections |-> <<>>]],
      shapes |-> <<[rotation |-> 0, rotationSpeed |-> 1, pulse |-> 0]>>,
      elements |-> <<[angle |-> 0, speed |-> 1]>>] :
        x \in {r.width}, a \in {[c |-> 5, s |-> 0], [c |-> -3, s |-> 4]}}

\* --------------------------------------------------------------- actions
Within(w) == w.next <= MaxHandles + 1

Commit(w) ==
    /\ Within(w)
    /\ obj' = w.obj
    /\ pending' = w.pending
    /\ nextHandle' = w.next
    /\ log' = w.log
    /\ thrown' = w.thrown
    /\ monitor' = w.monitor

\* Mutant: initParticles without the reduced-motion test.
InitParticlesAlways(reduced, container, mobile) ==
    IF ~container THEN 0 ELSE IF mobile THEN 30 ELSE 60

\* LoadingManager.initParticles(): the number of particles it appends to
\* the .loading-particles container.
InitParticles(reduced, container, mobile) ==
    IF reduced \/ ~container THEN 0 ELSE IF mobile THEN 30 ELSE 60

\* The page when its script has run: appState and loadingManager are
\* constructed, no scene exists yet, no timer is set.
Loaded ==
    /\ build \in Builds
    /\ surface \in [Ids -> Surfaces]
    /\ rect = [id \in Ids |-> LoadRect]
    /\ mousePosition = [x |-> 0, y |-> 0]
    /\ hidden \in BOOLEAN
    /\ obj = [id \in Ids |-> NoObject]
    /\ pending = [id \in Ids |-> {}]
    /\ nextHandle = 1
    /\ log = [id \in Ids |-> <<>>]
    /\ thrown = <<>>
    /\ appPc = "loading"
    /\ scenes = <<>>
    /\ kind \in Kinds
    /\ isReducedMotion \in BOOLEAN
    /\ \E container \in BOOLEAN : \E mobile \in BOOLEAN :
         loadingParticles = InitParticles(isReducedMotion, container, mobile)
    /\ clock = 0
    /\ timers = {}
    /\ timeout = <<>>
    /\ resized = [at |-> 0, runs |-> 0]
    /\ monitor = NewMonitor
    /\ nav = [isMenuOpen |-> FALSE, menu |-> FALSE, toggle |-> FALSE,
              section |-> "home"]
    /\ overflow = ""
    /\ loadingDom \in [screen : BOOLEAN, bar : BOOLEAN, text : BOOLEAN]
    /\ loading = NotLoading
    /\ scroll = NotScrolled
    /\ form = NewForm
    /\ counter \in {NewCounter(target) : target \in Targets}

\* The page has every optional element of the loading screen, and its
\* counter element carries a positive data-target.
Shipped ==
    /\ loadingDom = [screen |-> TRUE, bar |-> TRUE, text |-> TRUE]
    /\ counter.target = 7

\* The page as shipped on a desktop without the reduced-motion preference:
\* the CanvasScene canvas is the about canvas.
Init ==
    /\ Loaded
    /\ Shipped
    /\ kind = "hologram"
    /\ ~isReducedMotion
    /\ loadingParticles = 60

\* setupEventListeners runs when initializeScenes returned.
Installed(r) ==
    /\ Commit(r.w)
    /\ scenes' = r.scenes
    /\ appPc' = IF Thrown(r.w) THEN "failed" ELSE "ready"

\* App.initialize(): initializeManagers, initializeScenes, then
\* setupEventListeners.  The managers exist from here on, whether or not
\* initializeScenes returns.
AppInitialize ==
    /\ appPc = "loading"
    /\ \A id \in Ids : obj[id].state = "none"
    /\ \E seed \in Seeds(SeedRect("hero")) :
         \E u \in BOOLEAN :
           \E r \in {InitializeScenesFrom(Drawing(u), <<>>, 1, seed)} : Installed(r)
    /\ UNCHANGED <<build, surface, rect, mousePosition, hidden>>
    /\ UNCHANGED <<fixed, timing>>

\* App.init(), called by any caller.
Initialize ==
    /\ AppInitialize
    /\ UNCHANGED widgets

\* -------------------------------------------------------- LoadingManager
\* The values Math.random() * 15 + 5 may add to the progress.
Increments == {5, 12, 19}

\* Mutant: clearInterval that cancels nothing.
KeepInterval(active) == active

\* clearInterval(loadingInterval)
ClearInterval(active) == FALSE

\* LoadingManager.complete(): isComplete, and the 500 ms timer
Complete(l) ==
    [l EXCEPT !.isComplete = TRUE, !.stage = "t500", !.completions = @ + 1]

\* LoadingManager.updateProgress(targetProgress)
UpdateProgress(l, targetProgress) ==
    LET shown == [l EXCEPT !.reported = Min(targetProgress, 100),
                           !.width = IF loadingDom.bar THEN Min(targetProgress, 100) ELSE @,
                           !.text = IF loadingDom.text THEN Min(targetProgress, 100) ELSE @]
    IN IF shown.reported >= 100 /\ ~shown.isComplete THEN Complete(shown) ELSE shown

\* One run of the interval callback with the increment inc.
LoadingStep(l, inc) ==
    LET counted == [l EXCEPT !.progress = @ + inc, !.ticks = @ + 1]
        updated == UpdateProgress(counted, Min(counted.progress, 100))
    IN IF counted.progress >= 100
       THEN [updated EXCEPT !.interval = ClearInterval(@)]
       ELSE updated

LoadingUnchanged ==
    UNCHANGED <<build, surface, rect, mousePosition, hidden, obj, pending,
                nextHandle, log, thrown, appPc, scenes, fixed, timing, monitor,
                nav, loadingDom, scroll, form, counter>>

\* The DOMContentLoaded handler
DomContentLoaded ==
    /\ ~loading.started
    /\ overflow' = "hidden"
    /\ loading' = [loading EXCEPT !.started = TRUE, !.interval = TRUE]
    /\ LoadingUnchanged

\* The 200 ms interval fires.
LoadingTick ==
    /\ loading.interval
    /\ \E inc \in Increments : loading' = LoadingStep(loading, inc)
    /\ UNCHANGED overflow
    /\ LoadingUnchanged

\* The 500 ms timer of complete() fires: with a loading screen it marks the
\* screen loaded and sets the 1000 ms timer, without one it does nothing.
Loaded500 ==
    /\ loading.stage = "t500"
    /\ loading' = IF loadingDom.screen
                  THEN [loading EXCEPT !.stage = "t1000", !.isLoaded = TRUE]
                  ELSE [loading EXCEPT !.stage = "ended"]
    /\ UNCHANGED overflow
    /\ LoadingUnchanged

\* The 1000 ms timer fires: the screen is taken away, the body scrolls
\* again, and App.init() runs.
Reveal ==
    /\ loading.stage = "t1000"
    /\ loading' = [loading EXCEPT !.stage = "revealed"]
    /\ overflow' = "auto"
    /\ AppInitialize
    /\ UNCHANGED <<nav, loadingDom, scroll, form, counter>>

LoadNext ==
    \/ DomContentLoaded
    \/ LoadingTick
    \/ Loaded500
    \/ Reveal

\* The page from the moment its script has run, on a page with one working
\* CanvasScene canvas; the browser fires DOMContentLoaded and every timer
\* that is set.
LoadInit ==
    /\ Loaded
    /\ kind = "hologram"
    /\ ~isReducedMotion
    /\ ~hidden
    /\ surface = [id \in Ids |-> IF id = "about" THEN "ok" ELSE "absent"]

LoadSpec ==
    /\ LoadInit
    /\ [][LoadNext]_vars
    /\ WF_vars(DomContentLoaded)
    /\ WF_vars(LoadingTick)
    /\ WF_vars(Loaded500)
    /\ WF_vars(Reveal)

\* new HeroScene(canvas) / new CanvasScene(canvas, type) by any other caller.
NewScene(id) ==
    /\ obj[id].state = "none"
    /\ appPc # "loading" \/ surface[id] = "absent"
    /\ \E seed \in Seeds(SeedRect("hero")) :
         \E u \in BOOLEAN : \E w \in {New(Drawing(u), id, seed)} : Commit(w)
    /\ UNCHANGED <<build, surface, rect, mousePosition, hidden, appPc, scenes>>
    /\ UNCHANGED <<fixed, timing, widgets>>

\* scene.start()
StartCall(id) ==
    /\ obj[id].state = "constructed"
    /\ \E u \in BOOLEAN : \E w \in {Start(Drawing(u), id)} : Commit(w)
    /\ UNCHANGED <<build, surface, rect, mousePosition, hidden, appPc, scenes>>
    /\ UNCHANGED <<fixed, timing, widgets>>

\* scene.stop()
StopCall(id) ==
    /\ obj[id].state = "constructed"
    /\ \E w \in {Stop(World, id)} : Commit(w)
    /\ UNCHANGED <<build, surface, rect, mousePosition, hidden, appPc, scenes>>
    /\ UNCHANGED <<fixed, timing, widgets>>

\* scene.setupCanvas()
SetupCanvasCall(id) ==
    /\ obj[id].state = "constructed"
    /\ \E w \in {SetupCanvas(World, id)} : Commit(w)
    /\ UNCHANGED <<build, surface, rect, mousePosition, hidden, appPc, scenes>>
    /\ UNCHANGED <<fixed, timing, widgets>>

\* The browser runs a requested frame callback: the bound animate().
DeliverFrame(id) ==
    /\ \E h \in pending[id] :
         \E u \in BOOLEAN :
           \E w \in {Animate([Drawing(u) EXCEPT !.pending[id] = @ \ {h}], id)} : Commit(w)
    /\ UNCHANGED <<build, surface, rect, mousePosition, hidden, appPc, scenes>>
    /\ UNCHANGED <<fixed, timing, widgets>>

\* The scenes a document listener of App reaches: the registry once
\* setupEventListeners has run, none before that or when it never ran.
Listening == IF appPc = "ready" THEN scenes ELSE <<>>

\* The page is hidden or shown again; on visibilitychange the listener, if
\* installed, runs pauseAnimations when hidden and resumeAnimations otherwise.
VisibilityChange ==
    /\ hidden' = ~hidden
    /\ IF hidden'
       THEN \E w \in {Broadcast("stop", World, Listening, 1)} : Commit(w)
       ELSE \E u \in BOOLEAN :
              \E w \in {Broadcast("start", Drawing(u), Listening, 1)} : Commit(w)
    /\ UNCHANGED <<build, surface, rect, mousePosition, appPc, scenes>>
    /\ UNCHANGED <<fixed, timing, widgets>>

\* The wait App.setupEventListeners gives Utils.debounce.
ResizeWait == Ms(300)

\* Mutant: clearTimeout that cancels nothing.
KeepTimers(ts, handle) == ts

\* clearTimeout(timeout)
ClearTimeout(ts, handle) == IF handle = <<>> THEN ts ELSE ts \ {handle[1]}

\* The function Utils.debounce returns, called at time now:
\* clearTimeout(timeout); timeout = setTimeout(later, wait).
Debounced(now) ==
    /\ timers' = ClearTimeout(timers, timeout) \cup {now + ResizeWait}
    /\ timeout' = <<now + ResizeWait>>
    /\ resized' = [at |-> now, runs |-> 0]

\* The window is resized: every canvas gets a new layout box, and the
\* resize listener, if installed, runs the debounced function.
WindowResize ==
    /\ \E r \in Rects : rect' = [id \in Ids |-> r]
    /\ rect' # rect
    /\ thrown' = <<>>
    /\ IF appPc = "ready" THEN Debounced(clock) ELSE UNCHANGED <<timers, timeout, resized>>
    /\ UNCHANGED <<build, surface, mousePosition, hidden, obj, pending, nextHandle,
                   log, appPc, scenes>>
    /\ UNCHANGED <<fixed, clock, monitor, widgets>>

\* App.handleResize()
ResizeAll ==
    /\ appPc = "ready"
    /\ \E w \in {Broadcast("setupCanvas", World, scenes, 1)} : Commit(w)
    /\ UNCHANGED <<build, surface, rect, mousePosition, hidden, appPc, scenes>>
    /\ UNCHANGED <<fixed, widgets>>

\* The debounced resize listener fires at some moment: App.handleResize().
HandleResize ==
    /\ ResizeAll
    /\ UNCHANGED timing

\* A timer of the debounce is due and fires: later() clears the closure's
\* timeout and calls handleResize().
Later ==
    /\ \E due \in timers :
         /\ clock >= due
         /\ timers' = ClearTimeout(timers \ {due}, timeout)
    /\ resized' = [resized EXCEPT !.runs = @ + 1]
    /\ ResizeAll
    /\ UNCHANGED <<clock, timeout>>

\* 100 ms pass.
ClockTick ==
    /\ clock < MaxClock
    /\ clock' = clock + 1
    /\ UNCHANGED <<build, surface, rect, mousePosition, hidden, obj, pending,
                   nextHandle, log, thrown, appPc, scenes, fixed, timers, timeout,
                   resized, monitor, widgets>>

\* CursorManager.onMouseMove: appState.updateMousePosition(x, y)
MouseMove ==
    /\ \E m \in MousePoints : mousePosition' = m
    /\ mousePosition' # mousePosition
    /\ thrown' = <<>>
    /\ UNCHANGED <<build, surface, rect, hidden, obj, pending, nextHandle, log,
                   appPc, scenes>>
    /\ UNCHANGED <<fixed, timing, monitor, widgets>>

Next ==
    \/ Initialize
    \/ \E id \in Ids : NewScene(id)
    \/ \E id \in Ids : StartCall(id)
    \/ \E id \in Ids : StopCall(id)
    \/ \E id \in Ids : SetupCanvasCall(id)
    \/ \E id \in Ids : DeliverFrame(id)
    \/ VisibilityChange
    \/ HandleResize

Spec == Init /\ [][Next]_vars

\* ------------------------------------------- HeroScene.update() on inputs
\* The world before any scene exists.
EmptyWorld ==
    [obj |-> [id \in Ids |-> NoObject], pending |-> [id \in Ids |-> {}],
     next |-> 1, log |-> [id \in Ids |-> <<>>], thrown |-> <<>>,
     now |-> 0, draw |-> FALSE, monitor |-> NewMonitor]

\* Particle arrays initializeElements may produce on a canvas of box r:
\* positions at the left edge and just beyond the connection distance from
\* it, headings along and across the axes, speed 0.5 px per frame.
HeroInputs(r) ==
    [1..ParticleCount ->
        {[x |-> x, y |-> 0, angle |-> a, speed |-> 5, pulsePhase |-> 0,
          connections |-> <<>>] :
            x \in {x0 \in {0, Px(120) + 3} : x0 <= r.width},
            a \in {[c |-> 5, s |-> 0], [c |-> -3, s |-> 4], [c |-> 0, s |-> -5]}}]

Constructed(w) ==
    /\ obj = w.obj
    /\ pending = w.pending
    /\ nextHandle = w.next
    /\ log = w.log
    /\ thrown = w.thrown
    /\ monitor = w.monitor

\* A hero scene constructed on a canvas that yields no 2D context, the one
\* construction on a present canvas that returns (see HeroSceneConstructor).
HeroInit ==
    /\ build \in Builds
    /\ surface = [id \in Ids |-> IF id = "hero" THEN "noctx" ELSE "absent"]
    /\ rect = [id \in Ids |-> LoadRect]
    /\ mousePosition = [x |-> 0, y |-> 0]
    /\ hidden = FALSE
    /\ kind = "hologram"
    /\ isReducedMotion = FALSE
    /\ loadingParticles = 60
    /\ clock = 0
    /\ timers = {}
    /\ timeout = <<>>
    /\ resized = [at |-> 0, runs |-> 0]
    /\ nav = [isMenuOpen |-> FALSE, menu |-> FALSE, toggle |-> FALSE,
              section |-> "home"]
    /\ overflow = ""
    /\ counter = NewCounter(7)
    /\ Shipped
    /\ loading = NotLoading
    /\ scroll = NotScrolled
    /\ form = NewForm
    /\ \E ps \in HeroInputs(rect["hero"]) :
         Constructed(New(EmptyWorld, "hero",
                         [particles |-> ps,
                          shapes |-> <<[rotation |-> 0, rotationSpeed |-> 1, pulse |-> 0]>>,
                          elements |-> <<>>]))
    /\ appPc = "loading"
    /\ scenes = <<>>

\* scene.update(), called on the hero scene
UpdateCall ==
    /\ Len(log["hero"]) < MaxUpdates
    /\ \E w \in {Update(World, "hero")} : Commit(w)
    /\ UNCHANGED <<build, surface, rect, mousePosition, hidden, appPc, scenes>>
    /\ UNCHANGED <<fixed, timing, widgets>>

HeroNext ==
    \/ UpdateCall
    \/ MouseMove
    \/ WindowResize

HeroSpec == HeroInit /\ [][HeroNext]_vars

\* The page whose about canvas yields a 2D context, visible at load, with
\* the browser delivering frame callbacks: a requested callback eventually
\* runs.
LiveInit ==
    /\ Init
    /\ surface["about"] = "ok"
    /\ ~hidden

LiveSpec ==
    LiveInit /\ [][Next]_vars /\ \A id \in Ids : WF_vars(DeliverFrame(id))

\* The resize handling in time: resize events, the clock, and the timers of
\* the debounce, which fire once they are due.
ResizeNext ==
    \/ Initialize
    \/ WindowResize
    \/ ClockTick
    \/ Later

ResizeSpec ==
    Init /\ [][ResizeNext]_vars /\ WF_vars(ClockTick) /\ WF_vars(Later)

\* ----------------------------------------------------- NavigationManager
\* The section ids a caller may pass: two sections of the page and an id no
\* element has.
SectionIds == {"about", "contact", "missing"}

\* document.getElementById(sectionId) finds an element
HasSection(sectionId) == sectionId # "missing"

\* NavigationManager.toggleMenu(), as far as it writes the manager and the
\* classes of #nav-menu and #nav-toggle
ToggleMenu(n) == [n EXCEPT !.isMenuOpen = ~@, !.menu = ~@, !.toggle = ~@]

\* NavigationManager.closeMenu(), likewise
CloseMenu(n) == [n EXCEPT !.isMenuOpen = FALSE, !.menu = FALSE, !.toggle = FALSE]

\* NavigationManager.scrollToSection(sectionId)
ScrollTo(n, sectionId) ==
    IF HasSection(sectionId) THEN [n EXCEPT !.section = sectionId] ELSE n

\* The managers exist: initializeManagers() has run.
Managed == appPc # "loading"

NavUnchanged ==
    UNCHANGED <<build, surface, rect, mousePosition, hidden, obj, pending,
                nextHandle, log, thrown, appPc, scenes, fixed, timing, monitor,
                loadingDom, loading, scroll, form, counter>>

\* A click on #nav-toggle (part_000 only): toggleMenu()
ToggleClick ==
    /\ Managed
    /\ build = "part_000"
    /\ nav' = ToggleMenu(nav)
    /\ overflow' = IF nav'.isMenuOpen THEN "hidden" ELSE "auto"
    /\ NavUnchanged

\* A click on a .nav-link: scrollToSection(targetId) and, in part_000,
\* closeMenu().  The document listener runs too and finds the target
\* inside the navbar.
NavLinkClick ==
    /\ Managed
    /\ \E sectionId \in SectionIds :
         nav' = IF build = "part_000" THEN CloseMenu(ScrollTo(nav, sectionId))
                ELSE ScrollTo(nav, sectionId)
    /\ overflow' = IF build = "part_000" THEN "auto" ELSE overflow
    /\ NavUnchanged

\* A click outside the navbar (part_000 only): the document listener
OutsideClick ==
    /\ Managed
    /\ build = "part_000"
    /\ nav' = IF nav.isMenuOpen THEN CloseMenu(nav) ELSE nav
    /\ overflow' = IF nav.isMenuOpen THEN "auto" ELSE overflow
    /\ NavUnchanged

\* The Escape key (part_000 only), once App.setupEventListeners has run:
\* this.managers.get('navigation')?.closeMenu()
EscapeKey ==
    /\ appPc = "ready"
    /\ build = "part_000"
    /\ nav' = CloseMenu(nav)
    /\ overflow' = "auto"
    /\ NavUnchanged

\* window.scrollToSection(sectionId), the global function of part_000
ScrollToSectionCall ==
    /\ build = "part_000"
    /\ \E sectionId \in SectionIds :
         /\ nav' = IF HasSection(sectionId)
                   THEN [nav EXCEPT !.section = sectionId, !.menu = FALSE,
                                    !.toggle = IF nav.menu THEN FALSE ELSE @]
                   ELSE nav
         /\ overflow' = IF HasSection(sectionId) /\ nav.menu THEN "auto" ELSE overflow
    /\ NavUnchanged

NavNext ==
    \/ Initialize
    \/ ToggleClick
    \/ NavLinkClick
    \/ OutsideClick
    \/ EscapeKey
    \/ ScrollToSectionCall

NavSpec == Init /\ [][NavNext]_vars

\* ------------------------------------------- Utils.throttle and scrolling
\* The positions a scroll event may report, in px.
ScrollYs == {0, 200, 600}

\* The section updateActiveLink finds at scrollY y: the hero 'home' at the
\* top of the page, the section 'about' from 600 - 150 px on.
SectionAt(y) == IF y >= 450 THEN "about" ELSE "home"

\* The limit NavigationManager gives Utils.throttle.
ScrollLimit == Ms(100)

\* Mutant: a throttle timer set for no time at all.
NoWindow(now) == now

\* setTimeout(() => inThrottle = false, limit), set at time now: when the
\* timer is due
ThrottleWindow(now) == now + ScrollLimit

\* updateNavbarStyle(), updateActiveLink() and, in part_000,
\* updateBackToTop()
UpdateNav(sc) ==
    [sc EXCEPT !.scrolled = sc.y > 100,
               !.current = SectionAt(sc.y),
               !.active = IF SectionAt(sc.y) # sc.current THEN SectionAt(sc.y) ELSE @,
               !.backHidden = IF build = "part_000" THEN ~(sc.y > 500) ELSE @]

\* The function Utils.throttle returns, called at time now
Throttled(sc, now) ==
    IF ~sc.inThrottle
    THEN [UpdateNav(sc) EXCEPT !.inThrottle = TRUE,
                               !.timers = @ \cup {ThrottleWindow(now)},
                               !.lastRun = now,
                               !.runs = @ + 1]
    ELSE sc

ScrollUnchanged ==
    UNCHANGED <<build, surface, rect, mousePosition, hidden, obj, pending,
                nextHandle, log, thrown, appPc, scenes, fixed, timing, monitor,
                overflow, loadingDom, loading, form, counter>>

\* The window is scrolled to another position and the scroll listener of
\* NavigationManager runs.
ScrollEvent ==
    /\ Managed
    /\ scroll.events < MaxScrolls
    /\ \E y \in ScrollYs \ {scroll.y} :
         \E moved \in {[scroll EXCEPT !.y = y, !.events = @ + 1]} :
           \E sc \in {Throttled(moved, clock)} :
             /\ scroll' = sc
             /\ nav' = IF sc.current # scroll.current
                       THEN [nav EXCEPT !.section = sc.current] ELSE nav
    /\ ScrollUnchanged

\* A timer of the throttle is due and fires: inThrottle = false
ThrottleTimer ==
    /\ \E due \in scroll.timers :
         /\ clock >= due
         /\ scroll' = [scroll EXCEPT !.inThrottle = FALSE, !.timers = @ \ {due}]
    /\ UNCHANGED nav
    /\ ScrollUnchanged

ScrollNext ==
    \/ Initialize
    \/ ScrollEvent
    \/ ThrottleTimer
    \/ ClockTick

\* The shipped page without scene canvases, visible; time passes and the
\* timers that are due fire.
ScrollInit ==
    /\ Init
    /\ surface = [id \in Ids |-> "absent"]
    /\ ~hidden

ScrollSpec ==
    /\ ScrollInit
    /\ [][ScrollNext]_vars
    /\ WF_vars(ClockTick)
    /\ WF_vars(ThrottleTimer)

\* ----------------------------------------------------------- FormManager
FormUnchanged ==
    UNCHANGED <<build, surface, rect, mousePosition, hidden, obj, pending,
                nextHandle, log, thrown, appPc, scenes, fixed, timing, monitor,
                nav, overflow, loadingDom, loading, scroll, counter>>

\* The user types into a field of the form.
InputText ==
    /\ Managed
    /\ ~form.filled
    /\ form' = [form EXCEPT !.filled = TRUE]
    /\ FormUnchanged

\* FormManager.handleSubmit(e) up to the setTimeout: originalText is the
\* label's text at this moment.
HandleSubmit(f) ==
    [f EXCEPT !.disabled = TRUE,
              !.text = "Sending...",
              !.sends = Append(@, f.text),
              !.submits = @ + 1]

\* The callback of the 2000 ms timer that captured originalText
SendFinished(f, originalText) ==
    [f EXCEPT !.disabled = FALSE,
              !.text = originalText,
              !.filled = FALSE,
              !.messages = @ + 1]

\* A submit event of the contact form
Submit ==
    /\ Managed
    /\ form.submits < MaxSubmits
    /\ form' = HandleSubmit(form)
    /\ FormUnchanged

\* The oldest pending 2000 ms timer fires.
SendDone ==
    /\ form.sends # <<>>
    /\ form' = SendFinished([form EXCEPT !.sends = Tail(@)], Head(form.sends))
    /\ FormUnchanged

FormNext ==
    \/ Initialize
    \/ InputText
    \/ Submit
    \/ SendDone

FormSpec == Init /\ [][FormNext]_vars /\ WF_vars(SendDone)

\* ------------------------------------------------------ AnimationManager
\* duration / 16: the number of steps that make up the target
CounterSteps == 2000 \div 16

\* Mutant: the tick without current = target.
Overshoot(current, target) == current

\* current = target, on current in 125ths
Settle(current, target) == CounterSteps * target

\* One run of the interval callback of animateCounter: current += step,
\* where step is target / 125, i.e. target 125ths.
CounterStep(c) ==
    LET added == c.current + c.target
        reached == added >= CounterSteps * c.target
        current == IF reached THEN Settle(added, c.target) ELSE added
    IN [c EXCEPT !.current = current,
                 !.interval = IF reached THEN ClearInterval(@) ELSE @,
                 !.shown = current \div CounterSteps,
                 !.written = TRUE,
                 !.ticks = @ + 1]

CounterUnchanged ==
    UNCHANGED <<build, surface, rect, mousePosition, hidden, obj, pending,
                nextHandle, log, thrown, appPc, scenes, fixed, timing, monitor,
                nav, overflow, loadingDom, loading, scroll, form>>

\* The counter scrolls into view: the observer calls animateCounter(element)
\* and stops observing the element.
AnimateCounter ==
    /\ Managed
    /\ ~isReducedMotion
    /\ ~counter.started
    /\ counter' = [counter EXCEPT !.started = TRUE, !.interval = TRUE]
    /\ CounterUnchanged

\* The 16 ms interval fires.
CounterTick ==
    /\ counter.interval
    /\ counter' = CounterStep(counter)
    /\ CounterUnchanged

CounterNext ==
    \/ Initialize
    \/ AnimateCounter
    \/ CounterTick

\* The page without scene canvases, visible, with a counter of any target;
\* the interval fires while it is set.
CounterInit ==
    /\ Loaded
    /\ loadingDom = [screen |-> TRUE, bar |-> TRUE, text |-> TRUE]
    /\ kind = "hologram"
    /\ ~isReducedMotion
    /\ loadingParticles = 60
    /\ surface = [id \in Ids |-> "absent"]
    /\ ~hidden

CounterSpec == CounterInit /\ [][CounterNext]_vars /\ WF_vars(CounterTick)

\* The shipped page under either motion preference, on a desktop or a
\* mobile screen, with or without the container of the loading particles;
\* it has a hero canvas or none, and is visible at load.
MotionInit ==
    /\ Loaded
    /\ Shipped
    /\ kind = "hologram"
    /\ surface["about"] = "absent"
    /\ ~hidden

\* What the application does by itself: it initializes, the browser runs
\* frames, and the listeners of App run.
MotionNext ==
    \/ Initialize
    \/ \E id \in Ids : DeliverFrame(id)
    \/ VisibilityChange
    \/ HandleResize

MotionSpec == MotionInit /\ [][MotionNext]_vars

\* ------------------------------------------------ CanvasScene by pattern
\* scene.render(), called outside a frame
RenderCall(id) ==
    /\ obj[id].state = "constructed"
    /\ Len(log[id]) < MaxLog
    /\ \E u \in BOOLEAN : \E w \in {Render(Drawing(u), id)} : Commit(w)
    /\ UNCHANGED <<build, surface, rect, mousePosition, hidden, appPc, scenes>>
    /\ UNCHANGED <<fixed, timing, widgets>>

\* The page with one CanvasScene canvas, of any kind, that yields a 2D
\* context, and no hero canvas.
PatternInit ==
    /\ Loaded
    /\ Shipped
    /\ surface = [id \in Ids |-> IF id = "about" THEN "ok" ELSE "absent"]
    /\ ~hidden
    /\ ~isReducedMotion
    /\ loadingParticles = 60

PatternNext ==
    \/ Initialize
    \/ \E id \in Ids : DeliverFrame(id)
    \/ \E id \in Ids : RenderCall(id)
    \/ \E id \in Ids : StopCall(id)
    \/ \E id \in Ids : StartCall(id)
    \/ ClockTick

PatternSpec == PatternInit /\ [][PatternNext]_vars

\* ----------------------------------------------------------------- claims
\* The entity state of a scene object.
Entities(o) ==
    [time |-> o.time, particles |-> o.particles, shapes |-> o.shapes,
     elements |-> o.elements, pattern |-> o.pattern]

Hooks(id) == {k \in 1..Len(log[id]) : log[id][k].hook \in {"update", "render"}}

\* C1: constructing a scene on a canvas that yields a 2D context raises no
\* error, no update() or render() runs before the subclass fields are
\* assigned, and the constructed HeroScene holds its particles and shapes.
C1_ConstructionCompletes ==
    \A id \in Ids :
        (surface[id] = "ok" /\ obj[id].state # "none") =>
            /\ obj[id].state = "constructed"
            /\ \A k \in Hooks(id) : log[id][k].fields
            /\ ClassOf(id) = "HeroScene" =>
                   Len(obj[id].particles) = ParticleCount /\ Len(obj[id].shapes) > 0

\* C2: while a scene stays stopped, no update() or render() of it runs and
\* its entity state does not change, whatever callbacks are delivered.
C2_NoWorkWhileStopped ==
    [][\A id \in Ids :
          (obj[id].state # "none" /\ ~obj[id].isRunning /\ ~obj'[id].isRunning) =>
              /\ Entities(obj'[id]) = Entities(obj[id])
              /\ \A k \in 1..Len(log'[id]) :
                     k > Len(log[id]) => log'[id][k].hook = "return"]_vars

\* A callback reached a stopped scene that had run frames before.
C2_Witness ==
    \E id \in Ids :
        /\ surface[id] = "ok" /\ ~obj[id].isRunning
        /\ Hooks(id) # {}
        /\ log[id][Len(log[id])].hook = "return"

\* C3: a scene has at most one frame callback pending at any time.
C3_OneCallbackPending ==
    \A id \in Ids : Cardinality(pending[id]) <= 1

\* C4: a constructed scene whose canvas is absent or yields no 2D context
\* is never running and never has a frame callback pending.
C4_IdleWithoutSurface ==
    \A id \in Ids :
        (obj[id].state = "constructed" /\ surface[id] # "ok") =>
            ~obj[id].isRunning /\ pending[id] = {}

\* C5: no operation of a scene without canvas or without 2D context raises.
C5_NoErrorWithoutSurface ==
    thrown # <<>> => surface[thrown[2]] = "ok"

\* C6: the frame loop invokes render() only right after update() of the
\* same callback.
C6_UpdateBeforeRender ==
    \A id \in Ids : \A k \in 1..Len(log[id]) :
        log[id][k].hook = "render" => (k > 1 /\ log[id][k - 1].hook = "update")

\* A frame ran both hooks.
C6_Witness ==
    \E id \in Ids : \E k \in 1..Len(log[id]) : log[id][k].hook = "render"

\* Handles are left for another frame.
Budget == nextHandle <= MaxHandles

C8_StopStartKeepEntities ==
    [][\A id \in Ids :
          /\ (obj[id].isRunning /\ ~obj'[id].isRunning) =>
                 /\ obj'[id] = [obj[id] EXCEPT !.isRunning = FALSE]
                 /\ log'[id] = log[id]
                 /\ pending'[id] \in {pending[id], pending[id] \ {obj[id].animationId}}
          /\ (obj[id].state = "constructed" /\ ~obj[id].isRunning /\ obj'[id].isRunning) =>
                 Entities(obj'[id]) = Entities(Frame(World, id).obj[id])]_vars

\* A hero scene that ran updates is stopped with its particles in place.
C8_Witness ==
    /\ obj["hero"].state = "constructed" /\ ~obj["hero"].isRunning
    /\ Hooks("hero") # {}
    /\ Len(obj["hero"].particles) = ParticleCount

InBounds(p, r) == 0 <= p.x /\ p.x <= r.width /\ 0 <= p.y /\ p.y <= r.height

\* C9: when HeroScene.update() has completed, every particle lies within
\* the canvas bounds that update read.
C9_ClampInvariant ==
    [][log'["hero"] # log["hero"] =>
          \A i \in 1..Len(obj'["hero"].particles) :
              InBounds(obj'["hero"].particles[i], rect["hero"])]_vars

\* An update brought a particle back onto the left edge and mirrored it.
C9_Witness ==
    /\ Hooks("hero") # {}
    /\ \E i \in 1..Len(obj["hero"].particles) :
           obj["hero"].particles[i].x = 0 /\ obj["hero"].particles[i].angle.c = 3

\* The connection particle i records to particle j, as {} or a singleton.
Recorded(ps, i, j) ==
    {ps[i].connections[k].opacity :
        k \in {n \in 1..Len(ps[i].connections) : ps[i].connections[n].particle = j}}

\* The connections the positions in ps call for between i and j.
Expected(ps, i, j) ==
    IF Distance(ps[i].x, ps[i].y, ps[j].x, ps[j].y) < ConnectionDistance
    THEN {Opacity(Distance(ps[i].x, ps[i].y, ps[j].x, ps[j].y))}
    ELSE {}

\* C10: when HeroScene.update() has completed, the recorded connections are
\* exactly the pairs i < j whose distance at their current positions is
\* below 120, with the strength those positions give.
C10_ConnectionsCurrent ==
    (build = "part_000" /\ Hooks("hero") # {}) =>
        \A i \in 1..ParticleCount : \A j \in (i + 1)..ParticleCount :
            Recorded(obj["hero"].particles, i, j) = Expected(obj["hero"].particles, i, j)

\* The distance the inner loop measures for the pair (i, j) in an update
\* step: particle i as the step leaves it, particle j as the step found it.
Measured(i, j) ==
    Distance(obj'["hero"].particles[i].x, obj'["hero"].particles[i].y,
             obj["hero"].particles[j].x, obj["hero"].particles[j].y)

\* C11: every connection HeroScene.update() records has a strength within
\* [0, 1] (here 0..1000 thousandths) equal to (D - distance) / D for the
\* distance measured when the pair was evaluated, and that distance is
\* strictly below D.
C11_StrengthFromDistance ==
    [][(build = "part_000" /\ log'["hero"] # log["hero"]) =>
          \A i \in 1..ParticleCount :
              \A k \in 1..Len(obj'["hero"].particles[i].connections) :
                  LET c == obj'["hero"].particles[i].connections[k]
                  IN /\ c.particle \in (i + 1)..ParticleCount
                     /\ Measured(i, c.particle) < Px(120)
                     /\ c.opacity = ((Px(120) - Measured(i, c.particle)) * 1000) \div Px(120)
                     /\ 0 <= c.opacity /\ c.opacity <= 1000]_vars

\* An update recorded a connection of partial strength.
C11_Witness ==
    /\ build = "part_000" /\ Hooks("hero") # {}
    /\ \E i \in 1..ParticleCount :
           \E k \in 1..Len(obj["hero"].particles[i].connections) :
               /\ obj["hero"].particles[i].connections[k].opacity > 0
               /\ obj["hero"].particles[i].connections[k].opacity < 1000

\* Particle i of the hero scene after the position increments of an update
\* step, before the boundary tests.
Integrated(i) ==
    IF build = "part_000"
    THEN Integrate(Repel(obj["hero"].particles[i],
                         mousePosition.x - rect["hero"].left,
                         mousePosition.y - rect["hero"].top))
    ELSE Integrate(obj["hero"].particles[i])

\* C12: in an update, the x-component of a particle's heading changes sign
\* exactly when its integrated x lies outside [0, width], the y-component
\* exactly when its integrated y lies outside [0, height], each axis on its
\* own, and the position is clamped onto the boundary that was crossed.
C12_ReflectPerAxis ==
    [][log'["hero"] # log["hero"] =>
          \A i \in 1..ParticleCount :
              LET before == obj["hero"].particles[i]
                  after == obj'["hero"].particles[i]
                  width == rect["hero"].width
                  height == rect["hero"].height
              IN /\ after.angle.c = IF Integrated(i).x < 0 \/ Integrated(i).x > width
                                    THEN -before.angle.c ELSE before.angle.c
                 /\ after.angle.s = IF Integrated(i).y < 0 \/ Integrated(i).y > height
                                    THEN -before.angle.s ELSE before.angle.s
                 /\ after.x = IF Integrated(i).x < 0 THEN 0
                              ELSE IF Integrated(i).x > width THEN width
                              ELSE Integrated(i).x
                 /\ after.y = IF Integrated(i).y < 0 THEN 0
                              ELSE IF Integrated(i).y > height THEN height
                              ELSE Integrated(i).y]_vars

\* One update made a particle cross on both axes: its heading (-3, 4) has
\* both components reversed.
C12_Witness ==
    /\ Len(log["hero"]) = 1
    /\ \E i \in 1..ParticleCount :
           obj["hero"].particles[i].angle = [c |-> 3, s |-> -4]

\* The pointer in the coordinates of the hero canvas.
PointerX == mousePosition.x - rect["hero"].left

PointerY == mousePosition.y - rect["hero"].top

\* The distance of particle i from the pointer when an update step begins.
PointerDistance(i) ==
    Distance(PointerX, PointerY, obj["hero"].particles[i].x, obj["hero"].particles[i].y)

\* The displacement C13 calls for along one axis, for the separation sep on
\* that axis: none at distance R = 100 or more, else 2 * (R - d) / R along
\* the unit vector from the pointer to the particle (the x axis at d = 0,
\* where atan2 gives angle 0).
Repulsion(sep, d, atZero) ==
    IF d >= Px(100) THEN 0
    ELSE IF d = 0 THEN atZero
    ELSE Quot(Px(2) * sep * (Px(100) - d), d * Px(100))

\* A coordinate brought into 0..limit.
Into(limit, v) == IF v < 0 THEN 0 ELSE IF v > limit THEN limit ELSE v

\* C13: an update of part_000 displaces a particle by the pointer exactly
\* when its distance d to the pointer, in canvas coordinates, is below 100;
\* the displacement points from the pointer to the particle and has length
\* 2 * (100 - d) / 100; the particle then moves on by its own velocity.
C13_RepulsionWithinRadius ==
    [][(build = "part_000" /\ log'["hero"] # log["hero"]) =>
          \A i \in 1..ParticleCount :
              LET before == obj["hero"].particles[i]
                  after == obj'["hero"].particles[i]
              IN /\ after.x =
                        Into(rect["hero"].width,
                             before.x
                               + Repulsion(before.x - PointerX, PointerDistance(i), Px(2))
                               + Quot(before.angle.c * before.speed, 5))
                 /\ after.y =
                        Into(rect["hero"].height,
                             before.y
                               + Repulsion(before.y - PointerY, PointerDistance(i), 0)
                               + Quot(before.angle.s * before.speed, 5))]_vars

\* One update pushed the particle at x = 120.3 px, heading straight up, away
\* from the pointer 60.3 px to its left: by 0.7 px, to x = 121.0 px.
C13_Witness ==
    /\ build = "part_000" /\ Len(log["hero"]) = 1
    /\ \E i \in 1..ParticleCount :
           /\ obj["hero"].particles[i].x = Px(121)
           /\ obj["hero"].particles[i].angle.c = 0

\* The scenes App.initializeScenes started: those it registered, and the
\* one whose constructor threw after its frame loop had been started.
StartedByApp(id) ==
    \/ \E i \in 1..Len(scenes) : scenes[i] = id
    \/ appPc = "failed" /\ obj[id].state = "failed"

\* C14: when the page becomes hidden, every scene the application started
\* is stopped by the broadcast, so that none of them runs update() or
\* render() while the page stays hidden.
C14_HiddenStopsEveryScene ==
    [][(~hidden /\ hidden') =>
          \A id \in Ids : StartedByApp(id) => ~obj'[id].isRunning]_vars

\* C15: handleResize() runs only when 300 ms have passed since the latest
\* resize event, at most once after it, and (with timers firing and time
\* passing) once after every resize event that no later one follows.
C15_ResizeDebounced ==
    /\ [][resized'.runs > resized.runs =>
             /\ clock - resized.at >= Ms(300)
             /\ resized'.runs = 1]_vars
    /\ \A t0 \in 0..(MaxClock - Ms(300)) :
          (appPc = "ready" /\ timers # {} /\ resized = [at |-> t0, runs |-> 0])
              ~> (resized # [at |-> t0, runs |-> 0])

\* handleResize() ran after a burst of two resize events 100 ms apart.
C15_Witness ==
    /\ resized = [at |-> 1, runs |-> 1]
    /\ rect["hero"] = LoadRect

\* C16: two CanvasScene copies of one kind that are in the same state draw
\* the same output in the frame each runs next, and are in the same state
\* after it, whatever Date.now() and Math.random() give each of them: the
\* frame the browser delivers to a constructed CanvasScene leaves the object,
\* its output included, as the same frame leaves it at any other time and
\* with any other random draw.
C16_FramesDeterministic ==
    [][\A id \in Ids :
         (/\ ClassOf(id) = "CanvasScene"
          /\ obj[id].state = "constructed"
          /\ DeliverFrame(id))
         => \A u \in BOOLEAN : \A t \in 0..MaxClock :
               Animate([Drawing(u) EXCEPT !.now = t], id).obj[id] = obj'[id]]_vars

\* The patterns C17 is about: hologram and the layered network.
PurePatterns == {"hologram", "neural"}

\* C17: for the hologram and layered-network patterns a call of render()
\* changes nothing of the scene object but what is on the canvas, draws the
\* pattern for the scene's accumulated time t, and when
\* the canvas holds the same pattern drawn for the scene's current time t in
\* the same box, the call leaves on the canvas exactly what was there.
C17_RenderPure ==
    [][\A id \in Ids :
         (/\ RenderCall(id)
          /\ obj[id].ctx
          /\ PatternOf(build, obj[id].type) \in PurePatterns)
         => /\ obj'[id] = [obj[id] EXCEPT !.pattern = obj'[id].pattern,
                                          !.output = obj'[id].output]
            /\ obj'[id].output.pattern = PatternOf(build, obj[id].type)
            /\ obj'[id].output.t = obj[id].time
            /\ (/\ obj[id].output.pattern = obj'[id].output.pattern
                /\ obj[id].output.t = obj[id].time
                /\ obj[id].output.box = obj'[id].output.box)
               => obj'[id].output = obj[id].output]_vars

\* The layered network rendered twice in a row at one time value after a
\* frame has advanced the time.
C17_Witness ==
    \E id \in Ids :
        /\ obj[id].pattern = "neural"
        /\ obj[id].time.n > 0
        /\ obj[id].output.t = obj[id].time
        /\ Len(log[id]) >= 2
        /\ log[id][Len(log[id])].hook = "render"
        /\ log[id][Len(log[id]) - 1].hook = "render"

\* C18: when the reduced-motion preference is set at startup, neither the
\* loading screen's particle field nor the particle field of a hero scene
\* holds any particle.
C18_NoParticlesWhenReduced ==
    isReducedMotion =>
        /\ loadingParticles = 0
        /\ \A id \in Ids : obj[id].particles = <<>>

\* C19: when the reduced-motion preference is set as appState is
\* constructed, the loading screen's particle field holds no particle, at
\* load and at every later time.
C19_LoadingFieldEmpty ==
    /\ isReducedMotion => loadingParticles = 0
    /\ [][loadingParticles' = loadingParticles]_vars

\* The preference set, the application initialized, and the page hidden
\* since.
C19_Witness ==
    /\ isReducedMotion
    /\ loadingParticles = 0
    /\ appPc = "ready"
    /\ hidden

\* C20: whatever a CanvasScene has rendered, in its first frame or any
\* later one, is the pattern of the kind its constructor was given: that
\* kind when it is one of default, hologram, network, particle and neural,
\* and the default pattern otherwise.
C20_DispatchOnConstructorKind ==
    \A id \in Ids :
        (ClassOf(id) = "CanvasScene" /\ obj[id].output.pattern # "none")
        => obj[id].output.pattern =
               IF TypeArg(build, id) \in {"default", "hologram", "network", "particle", "neural"}
               THEN TypeArg(build, id)
               ELSE "default"

\* The frames a scene has executed: its animate() calls that got past the
\* running guard, each of which invokes update() once.
Frames(id) == Cardinality({i \in 1..Len(log[id]) : log[id][i].hook = "update"})

\* C21: the time accumulator of a CanvasScene is a number, and after k
\* executed frames it is k steps: every frame adds one step and nothing
\* else (construction, stop(), start(), resize) changes it.
C21_TimeCountsFrames ==
    \A id \in Ids :
        (ClassOf(id) = "CanvasScene" /\ obj[id].state # "none")
        => /\ obj[id].time.kind = "number"
           /\ obj[id].time.n = Frames(id)

\* C22: a frame of one scene, run while another scene object exists, writes
\* nothing the frames of another scene read or write: it leaves the other
\* scenes' objects, pending callbacks and hook records as they were, and
\* it writes to no object that frames of all scenes use.
C22_FramesIndependent ==
    [][\A id \in Ids :
         (DeliverFrame(id) /\ \E other \in Ids \ {id} : obj[other].state = "constructed")
         => /\ \A other \in Ids \ {id} :
                 /\ obj'[other] = obj[other]
                 /\ pending'[other] = pending[other]
                 /\ log'[other] = log[other]
            /\ monitor' = monitor]_vars

\* C23: in the connection lists HeroScene.update() leaves, every entry of
\* particle i's list names a particle j > i (so no particle is connected to
\* itself and a pair is only ever in the list of its lower index), and no
\* list names a particle twice: an unordered pair appears at most once.
C23_PairsOnce ==
    \A i \in 1..Len(obj["hero"].particles) :
        LET list == obj["hero"].particles[i].connections
        IN \A k \in 1..Len(list) :
              /\ list[k].particle \in (i + 1)..Len(obj["hero"].particles)
              /\ \A n \in 1..Len(list) : n # k => list[n].particle # list[k].particle

\* update() has run twice in part_000 and left a connection.
C23_Witness ==
    /\ build = "part_000"
    /\ Len(log["hero"]) = 2
    /\ Len(obj["hero"].particles[1].connections) = 1

\* C24: the manager's isMenuOpen is true exactly when #nav-menu and
\* #nav-toggle carry the 'active' class, and body scrolling is locked
\* (overflow hidden) exactly when the menu is open.
C24_MenuConsistent ==
    /\ nav.isMenuOpen = nav.menu
    /\ nav.isMenuOpen = nav.toggle
    /\ nav.isMenuOpen = (overflow = "hidden")

\* C25: the loading ticks end, whatever the increments: at most 20 ticks
\* run, the interval is cleared once the progress is 100 and a started
\* sequence gets there, the reported progress never exceeds 100 and never
\* decreases, and complete() is called at most once.
C25_LoadingTerminates ==
    /\ [](loading.ticks <= 20)
    /\ [](loading.progress >= 100 => ~loading.interval)
    /\ [](loading.reported <= 100 /\ loading.completions <= 1)
    /\ [][loading'.reported >= loading.reported]_vars
    /\ [][loading'.ticks > loading.ticks => loading.progress < 100]_vars
    /\ loading.started ~> (loading.progress >= 100 /\ ~loading.interval)

\* Twenty ticks of the smallest increment have run and the interval is
\* cleared.
C25_Witness ==
    /\ loading.ticks = 20
    /\ loading.progress = 100
    /\ ~loading.interval
    /\ loading.completions = 1

\* C26: once the loading progress has reached 100, the application is
\* eventually initialized and body scrolling is re-enabled, with or without
\* the optional elements of the loading screen.
C26_LoadedLeadsToInit ==
    (loading.reported >= 100) ~> (appPc # "loading" /\ overflow = "auto")

\* The navbar style, the active link and the back-to-top button correspond
\* to the scroll position.
Styled ==
    /\ scroll.scrolled = (scroll.y > 100)
    /\ scroll.current = SectionAt(scroll.y)
    /\ scroll.active = SectionAt(scroll.y)
    /\ build = "part_000" => scroll.backHidden = ~(scroll.y > 500)

\* C27: when scrolling has stopped, the navbar style, the active link and
\* the back-to-top button eventually correspond to the final position, and
\* stay so.
C27_LastScrollApplied ==
    <>[][~ScrollEvent]_vars => <>[]Styled

\* C28: the throttled function runs in a call exactly when no window is
\* open (on the first call, and on the first call after the timer of the
\* latest run has fired), and two runs are never less than the limit apart.
C28_ThrottleWindow ==
    /\ [][ScrollEvent =>
            /\ (scroll'.runs = scroll.runs + 1) = (scroll.timers = {})
            /\ scroll'.runs \in {scroll.runs, scroll.runs + 1}]_vars
    /\ [][(scroll'.runs > scroll.runs /\ scroll.runs > 0)
            => clock - scroll.lastRun >= ScrollLimit]_vars
    /\ [](scroll.runs = 0 => ~scroll.inThrottle)

\* A call was dropped within a window, and a later call ran after it.
C28_Witness ==
    /\ scroll.events = 3
    /\ scroll.runs = 2
    /\ scroll.lastRun > 0

\* C29: when every pending send has finished, the submit button is enabled
\* and its label is the text it had before the first submit.
C29_ButtonRestored ==
    form.sends = <<>> => (~form.disabled /\ form.text = NewForm.text)

\* C30: animateCounter terminates for every integer target: the value
\* shown never exceeds the target, a started counter eventually shows the
\* target exactly with its interval cleared, and once it is there the
\* interval never fires again.
C30_CounterTerminates ==
    /\ [](counter.written => counter.shown <= counter.target)
    /\ counter.started ~> (/\ counter.written
                           /\ counter.shown = counter.target
                           /\ ~counter.interval)
    /\ [][(counter.written /\ counter.shown = counter.target
                /\ ~counter.interval)
            => counter' = counter]_vars
    /\ [][counter'.ticks > counter.ticks => counter.interval]_vars

\* A counter with a positive target has counted up to it in 125 ticks.
C30_Witness ==
    /\ counter.target = 7
    /\ counter.shown = 7
    /\ counter.ticks = 125
    /\ ~counter.interval

====
